---------------------------- MODULE Spec2Model ----------------------------
(***************************************************************************)
(* Constraint generation for a resolved Leo program: the integer           *)
(* constraint subsystem (compiler/src/constraints/integer/integer.rs) and  *)
(* the program driver generate_constraints (compiler/src/constraints/      *)
(* mod.rs).                                                                *)
(*                                                                         *)
(* Two specifications:                                                     *)
(*   Spec     one call of an integer operation on a constraint system that *)
(*            already holds some constraints; operands are drawn from      *)
(*            boundary values of every width.                              *)
(*   SpecGen  a run of generate_constraints on a program and a parameter   *)
(*            list, on an empty constraint system, stepping through the    *)
(*            function's statements.                                       *)
(*                                                                         *)
(* An unsigned integer of width w is a little-endian sequence of w/8       *)
(* bytes, so that 64- and 128-bit arithmetic keeps its width.              *)
(***************************************************************************)
EXTENDS Integers, Sequences, FiniteSets, TLC

VARIABLES cs, call, program, parameters, run

vars == <<cs, call, program, parameters, run>>

\* Number of constraints a constraint system may hold before an operation
\* is called on it.
MaxPre == 1

-----------------------------------------------------------------------------
(* Option<T> *)

None == <<>>
Some(x) == <<x>>
IsSome(o) == Len(o) = 1
Unwrap(o) == o[1]

-----------------------------------------------------------------------------
(* Fixed-width unsigned arithmetic on little-endian byte sequences *)

IntegerTypes == {"U8", "U16", "U32", "U64", "U128"}

\* Bit width named by an integer tag.
Width(tag) ==
  CASE tag = "U8" -> 8
    [] tag = "U16" -> 16
    [] tag = "U32" -> 32
    [] tag = "U64" -> 64
    [] tag = "U128" -> 128

\* The tag of a width.
TagOf(w) == CHOOSE tag \in IntegerTypes : Width(tag) = w

NumBytes(w) == w \div 8

Zeros(n) == [i \in 1..n |-> 0]

RECURSIVE NatToBytes(_, _)
\* The n low bytes of the natural k (k as uN, truncating).
NatToBytes(k, n) ==
  IF n = 0 THEN <<>> ELSE <<k % 256>> \o NatToBytes(k \div 256, n - 1)

RECURSIVE AddCarry(_, _, _, _)
\* a + b + c from byte i on, the carry out of the last byte dropped.
AddCarry(a, b, i, c) ==
  IF i > Len(a) THEN <<>>
  ELSE LET s == a[i] + b[i] + c
       IN  <<s % 256>> \o AddCarry(a, b, i + 1, s \div 256)

\* (a + b) mod 2^w
AddBytes(a, b) == AddCarry(a, b, 1, 0)

NotBytes(a) == [i \in 1..Len(a) |-> 255 - a[i]]

\* (a - b) mod 2^w, as a + ~b + 1
SubBytes(a, b) == AddCarry(a, NotBytes(b), 1, 1)

RECURSIVE MulRow(_, _, _, _)
\* a * d for one byte d, truncated to Len(a) bytes.
MulRow(a, d, i, c) ==
  IF i > Len(a) THEN <<>>
  ELSE LET s == a[i] * d + c
       IN  <<s % 256>> \o MulRow(a, d, i + 1, s \div 256)

\* a * 256^k, truncated to Len(a) bytes.
ShiftBytes(a, k) == SubSeq(Zeros(k) \o a, 1, Len(a))

RECURSIVE MulAcc(_, _, _)
MulAcc(a, b, j) ==
  IF j > Len(b) THEN Zeros(Len(a))
  ELSE IF b[j] = 0 THEN MulAcc(a, b, j + 1)
  ELSE AddBytes(ShiftBytes(MulRow(a, b[j], 1, 0), j - 1), MulAcc(a, b, j + 1))

\* (a * b) mod 2^w
MulBytes(a, b) == MulAcc(a, b, 1)

IsZero(a) == \A i \in 1..Len(a) : a[i] = 0

RECURSIVE GeFrom(_, _, _)
\* a >= b, comparing from byte i down.
GeFrom(a, b, i) ==
  IF i = 0 THEN TRUE
  ELSE IF a[i] # b[i] THEN a[i] > b[i]
  ELSE GeFrom(a, b, i - 1)

GeBytes(a, b) == GeFrom(a, b, Len(a))

\* Bit k (0 = least significant) of a.
BitOf(a, k) == (a[(k \div 8) + 1] \div (2 ^ (k % 8))) % 2

\* One step of restoring division of n by d (d one byte longer than n):
\* bit k of n is brought down into the remainder st.r, and bit k of the
\* quotient st.q is set when d fits.
DivBit(n, d, k, st) ==
  LET r2 == AddCarry(st.r, st.r, 1, BitOf(n, k))
  IN  IF GeBytes(r2, d)
      THEN [r |-> SubBytes(r2, d),
            q |-> [st.q EXCEPT ![(k \div 8) + 1] = @ + 2 ^ (k % 8)]]
      ELSE [r |-> r2, q |-> st.q]

RECURSIVE DivRange(_, _, _, _, _)
\* The division steps for the bits hi down to lo of n, the upper half of
\* the range first. (The test on the upper half's result makes TLC compute
\* it before the lower half is entered, which keeps the evaluation shallow.)
DivRange(n, d, hi, lo, st) ==
  IF hi = lo THEN DivBit(n, d, hi, st)
  ELSE LET mid == (hi + lo + 1) \div 2
           up == DivRange(n, d, hi, mid, st)
       IN  IF Len(up.q) = Len(n) THEN DivRange(n, d, mid - 1, lo, up) ELSE up

\* a div b (truncating), b nonzero.
DivBytes(a, b) ==
  DivRange(a, b \o <<0>>, 8 * Len(a) - 1, 0,
           [r |-> Zeros(Len(a) + 1), q |-> Zeros(Len(a))]).q

\* One step of square-and-multiply, from the top bit of e down: acc is
\* a to the power of the bits of e above k.
PowBit(a, e, k, acc) ==
  LET sq == MulBytes(acc, acc)
  IN  IF BitOf(e, k) = 1 THEN MulBytes(sq, a) ELSE sq

RECURSIVE PowRange(_, _, _, _, _)
\* The square-and-multiply steps for the bits hi down to lo of e, the
\* upper half first (computed before the lower half is entered).
PowRange(a, e, hi, lo, acc) ==
  IF hi = lo THEN PowBit(a, e, hi, acc)
  ELSE LET mid == (hi + lo + 1) \div 2
           up == PowRange(a, e, hi, mid, acc)
       IN  IF Len(up) = Len(a) THEN PowRange(a, e, mid - 1, lo, up) ELSE up

\* (a ** b) mod 2^w
PowBytes(a, b) == PowRange(a, b, 8 * Len(b) - 1, 0, NatToBytes(1, Len(a)))

-----------------------------------------------------------------------------
(* Values, results and errors *)

\* A width-specific circuit integer (UInt8 .. UInt128): its width in bits
\* and its value, None for an unassigned witness.
UInt(w, value) == [width |-> w, value |-> value]

\* Integer::U8(..) .. Integer::U128(..)
Integer(tag, uint) == [tag |-> tag, uint |-> uint]

\* ConstrainedValue
CVBoolean(b) == [kind |-> "Boolean", constant |-> b]
CVInteger(integer) == [kind |-> "Integer", integer |-> integer]
CVFunction(function) == [kind |-> "Function", function |-> function]
CVOther(what) == [kind |-> what]
Unit == [kind |-> "Unit"]

NoValue == [kind |-> "none"]
NoError == [kind |-> "none"]

\* Result<T, E> together with the constraint system the call leaves and the
\* width routines it entered.
Ok(v, c, g) == [ok |-> TRUE, val |-> v, err |-> NoError, cs |-> c, gadgets |-> g]
Err(e, c, g) == [ok |-> FALSE, val |-> NoValue, err |-> e, cs |-> c, gadgets |-> g]

\* One constraint group appended to the constraint system by a width
\* routine: the routine, its width and, for the equality with an input
\* literal, the literal.
Constraint(gadget, w, literal) == [gadget |-> gadget, width |-> w, literal |-> literal]

Routine(name, w) == [routine |-> name, width |-> w]

Suffix(tag) ==
  CASE tag = "U8" -> "u8"
    [] tag = "U16" -> "u16"
    [] tag = "U32" -> "u32"
    [] tag = "U64" -> "u64"
    [] tag = "U128" -> "u128"

\* Display of an Integer, as format!("{}", integer) renders it: the value
\* followed by the width's suffix.
Display(integer) == [value |-> integer.uint.value, suffix |-> Suffix(integer.tag)]

\* Type
IntegerType(tag) == [kind |-> "IntegerType", integer_type |-> tag]
OtherType(kind) == [kind |-> kind, integer_type |-> "-"]

\* Type::to_string
TypeToString(type) ==
  CASE type.kind = "IntegerType" -> Suffix(type.integer_type)
    [] type.kind = "Boolean" -> "bool"
    [] type.kind = "FieldElement" -> "fe"

\* InputValue
InputInteger(n) == [kind |-> "Integer", n |-> n]
InputBoolean(b) == [kind |-> "Boolean", n |-> IF b THEN 1 ELSE 0]
InputField(n) == [kind |-> "Field", n |-> n]

\* InputValue::to_string
InputValueToString(value) ==
  CASE value.kind = "Integer" -> ToString(value.n)
    [] value.kind = "Boolean" -> (IF value.n = 1 THEN "true" ELSE "false")
    [] value.kind = "Field" -> ToString(value.n)

\* InputModel
InputModel(type) == [_type |-> type]

\* IntegerError
CannotEvaluate(left, op, right) ==
  [kind |-> "CannotEvaluate", left |-> Display(left), op |-> op, right |-> Display(right)]
CannotEnforce(left, op, right) ==
  [kind |-> "CannotEnforce", left |-> Display(left), op |-> op, right |-> Display(right)]
InvalidType(type) == [kind |-> "InvalidType", type |-> type]
InvalidInteger(type, value) == [kind |-> "InvalidInteger", type |-> type, value |-> value]
SynthesisError(what) == [kind |-> "SynthesisError", what |-> what]

-----------------------------------------------------------------------------
(* Width gadgets: uN stands for u8, u16, u32, u64 and u128; w says which   *)
(* of the five routines is called.                                         *)
(*                                                                         *)
(* The routines are not in integer.rs. What they compute on assigned       *)
(* values is taken from the specification. Two things it leaves to them    *)
(* are inputs of the model, drawn by the actions:                          *)
(*   unassigned_eq  what == answers when an operand is an unassigned       *)
(*                  witness;                                               *)
(*   fault          the failure an arithmetic routine reports on the call  *)
(*                  (overflow beyond the width, a false assertion, a       *)
(*                  failure of the constraint system), None when it        *)
(*                  reports none. A division by zero is always rejected.   *)

Both(l, r) == IsSome(l.value) /\ IsSome(r.value)

\* The failures an arithmetic routine may report besides a division by
\* zero.
GadgetFaults == {SynthesisError("Overflow"), SynthesisError("Unsatisfiable")}

\* Option<failure>: what the routine reports on one call.
Faults == {None} \cup {Some(e) : e \in GadgetFaults}

\* UIntN == UIntN: the equality of the two values when both are assigned.
uN_eq(unassigned_eq, l, r) ==
  IF Both(l, r) THEN Unwrap(l.value) = Unwrap(r.value) ELSE unassigned_eq

enforce_uN_eq(w, c, l, r) ==
  Ok(Unit, Append(c, Constraint("eq", w, None)), <<Routine("eq", w)>>)

enforce_uN_add(fault, w, c, l, r) ==
  IF IsSome(fault)
  THEN Err(Unwrap(fault), c, <<Routine("add", w)>>)
  ELSE Ok(UInt(w, IF Both(l, r) THEN Some(AddBytes(Unwrap(l.value), Unwrap(r.value))) ELSE None),
          Append(c, Constraint("add", w, None)), <<Routine("add", w)>>)

enforce_uN_sub(fault, w, c, l, r) ==
  IF IsSome(fault)
  THEN Err(Unwrap(fault), c, <<Routine("sub", w)>>)
  ELSE Ok(UInt(w, IF Both(l, r) THEN Some(SubBytes(Unwrap(l.value), Unwrap(r.value))) ELSE None),
          Append(c, Constraint("sub", w, None)), <<Routine("sub", w)>>)

enforce_uN_mul(fault, w, c, l, r) ==
  IF IsSome(fault)
  THEN Err(Unwrap(fault), c, <<Routine("mul", w)>>)
  ELSE Ok(UInt(w, IF Both(l, r) THEN Some(MulBytes(Unwrap(l.value), Unwrap(r.value))) ELSE None),
          Append(c, Constraint("mul", w, None)), <<Routine("mul", w)>>)

enforce_uN_div(fault, w, c, l, r) ==
  IF IsSome(r.value) /\ IsZero(Unwrap(r.value))
  THEN Err(SynthesisError("DivisionByZero"), c, <<Routine("div", w)>>)
  ELSE IF IsSome(fault)
  THEN Err(Unwrap(fault), c, <<Routine("div", w)>>)
  ELSE Ok(UInt(w, IF Both(l, r) THEN Some(DivBytes(Unwrap(l.value), Unwrap(r.value))) ELSE None),
          Append(c, Constraint("div", w, None)), <<Routine("div", w)>>)

enforce_uN_pow(fault, w, c, l, r) ==
  IF IsSome(fault)
  THEN Err(Unwrap(fault), c, <<Routine("pow", w)>>)
  ELSE Ok(UInt(w, IF Both(l, r) THEN Some(PowBytes(Unwrap(l.value), Unwrap(r.value))) ELSE None),
          Append(c, Constraint("pow", w, None)), <<Routine("pow", w)>>)

\* u8_from_input .. u64_from_input, u128_from_integer: allocate a witness of
\* width w; with a literal, assign it and enforce equality with it.
uN_from_input(w, c, integer_model, integer_option) ==
  LET value == IF IsSome(integer_option)
               THEN Some(NatToBytes(Unwrap(integer_option), NumBytes(w)))
               ELSE None
      alloc == <<Constraint("alloc", w, None)>>
      equal == IF IsSome(value) THEN <<Constraint("eq_literal", w, value)>> ELSE <<>>
  IN  Ok(CVInteger(Integer(TagOf(w), UInt(w, value))), c \o alloc \o equal,
         <<Routine("from_input", w)>>)

-----------------------------------------------------------------------------
(* The integer constraint subsystem *)

get_integer_constant(integer) == CVInteger(integer)

\* A result of an operation that takes no constraint system.
PureOk(v) == [ok |-> TRUE, val |-> v, err |-> NoError]
PureErr(e) == [ok |-> FALSE, val |-> NoValue, err |-> e]

\* unassigned_eq: the answer of the width type's == on an unassigned operand.
evaluate_integer_eq(unassigned_eq, left, right) ==
  IF left.tag = right.tag
  THEN PureOk(CVBoolean(uN_eq(unassigned_eq, left.uint, right.uint)))
  ELSE PureErr(CannotEvaluate(left, "==", right))

\* integer_from_parameter with the value examined before the declared type.
integer_from_parameter_value_first(c, integer_model, integer_value) ==
  IF IsSome(integer_value) /\ Unwrap(integer_value).kind # "Integer"
  THEN Err(InvalidInteger(TypeToString(integer_model._type),
                          InputValueToString(Unwrap(integer_value))), c, <<>>)
  ELSE IF integer_model._type.kind # "IntegerType"
  THEN Err(InvalidType(TypeToString(integer_model._type)), c, <<>>)
  ELSE uN_from_input(Width(integer_model._type.integer_type), c, integer_model,
                     IF IsSome(integer_value) THEN Some(Unwrap(integer_value).n) ELSE None)

\* integer_from_parameter with a non-integer literal taken as no literal.
integer_from_parameter_lenient(c, integer_model, integer_value) ==
  IF integer_model._type.kind # "IntegerType"
  THEN Err(InvalidType(TypeToString(integer_model._type)), c, <<>>)
  ELSE uN_from_input(Width(integer_model._type.integer_type), c, integer_model,
                     IF IsSome(integer_value) /\ Unwrap(integer_value).kind = "Integer"
                     THEN Some(Unwrap(integer_value).n) ELSE None)

\* integer_from_parameter with the witness allocated before the value is
\* examined.
integer_from_parameter_alloc_first(c, integer_model, integer_value) ==
  IF integer_model._type.kind # "IntegerType"
  THEN Err(InvalidType(TypeToString(integer_model._type)), c, <<>>)
  ELSE LET w == Width(integer_model._type.integer_type)
           allocated == uN_from_input(w, c, integer_model, None)
       IN  IF IsSome(integer_value) /\ Unwrap(integer_value).kind # "Integer"
           THEN Err(InvalidInteger(TypeToString(integer_model._type),
                                   InputValueToString(Unwrap(integer_value))),
                    allocated.cs, <<>>)
           ELSE uN_from_input(w, c, integer_model,
                              IF IsSome(integer_value)
                              THEN Some(Unwrap(integer_value).n) ELSE None)

integer_from_parameter(c, integer_model, integer_value) ==
  IF integer_model._type.kind # "IntegerType"
  THEN Err(InvalidType(TypeToString(integer_model._type)), c, <<>>)
  ELSE IF IsSome(integer_value) /\ Unwrap(integer_value).kind # "Integer"
  THEN Err(InvalidInteger(TypeToString(integer_model._type),
                          InputValueToString(Unwrap(integer_value))), c, <<>>)
  ELSE LET integer_type == integer_model._type.integer_type
           integer_option == IF IsSome(integer_value)
                             THEN Some(Unwrap(integer_value).n)
                             ELSE None
       IN  uN_from_input(Width(integer_type), c, integer_model, integer_option)

enforce_integer_eq(c, left, right) ==
  IF left.tag = right.tag
  THEN enforce_uN_eq(Width(left.tag), c, left.uint, right.uint)
  ELSE Err(CannotEnforce(left, "==", right), c, <<>>)

\* WrapInteger with the gadget's failure defaulted: the arm returns a zero
\* of its width where the gadget failed.
WrapInteger_defaulting(tag, g) ==
  IF g.ok THEN Ok(CVInteger(Integer(tag, g.val)), g.cs, g.gadgets)
  ELSE Ok(CVInteger(Integer(tag, UInt(Width(tag), Some(Zeros(NumBytes(Width(tag))))))),
          g.cs, g.gadgets)

\* Ok(ConstrainedValue::Integer(Integer::UN(gadget?))): the gadget's value
\* under the arm's tag, or the gadget's error as it is.
WrapInteger(tag, g) ==
  IF g.ok THEN Ok(CVInteger(Integer(tag, g.val)), g.cs, g.gadgets) ELSE g

\* A circuit integer extended with zero bytes to width w.
Widen(uint, w) ==
  UInt(w, IF IsSome(uint.value)
          THEN Some(Unwrap(uint.value) \o Zeros(NumBytes(w) - NumBytes(uint.width)))
          ELSE None)

\* enforce_integer_add with operands of different widths promoted to the
\* wider one.
enforce_integer_add_widening(fault, c, left, right) ==
  LET tag == IF Width(left.tag) >= Width(right.tag) THEN left.tag ELSE right.tag
      w == Width(tag)
  IN  WrapInteger(tag, enforce_uN_add(fault, w, c, Widen(left.uint, w), Widen(right.uint, w)))

\* fault, here and in the four operations below: what the width routine the
\* arm calls reports on this call.
enforce_integer_add(fault, c, left, right) ==
  IF left.tag = right.tag
  THEN WrapInteger(left.tag, enforce_uN_add(fault, Width(left.tag), c, left.uint, right.uint))
  ELSE Err(CannotEnforce(left, "+", right), c, <<>>)

enforce_integer_sub(fault, c, left, right) ==
  IF left.tag = right.tag
  THEN WrapInteger(left.tag, enforce_uN_sub(fault, Width(left.tag), c, left.uint, right.uint))
  ELSE Err(CannotEnforce(left, "-", right), c, <<>>)

enforce_integer_mul(fault, c, left, right) ==
  IF left.tag = right.tag
  THEN WrapInteger(left.tag, enforce_uN_mul(fault, Width(left.tag), c, left.uint, right.uint))
  ELSE Err(CannotEnforce(left, "*", right), c, <<>>)

enforce_integer_div(fault, c, left, right) ==
  IF left.tag = right.tag
  THEN WrapInteger(left.tag, enforce_uN_div(fault, Width(left.tag), c, left.uint, right.uint))
  ELSE Err(CannotEnforce(left, "/", right), c, <<>>)

enforce_integer_pow(fault, c, left, right) ==
  IF left.tag = right.tag
  THEN WrapInteger(left.tag, enforce_uN_pow(fault, Width(left.tag), c, left.uint, right.uint))
  ELSE Err(CannotEnforce(left, "**", right), c, <<>>)

-----------------------------------------------------------------------------
(* Inputs of Spec *)

MaxBytes(n) == [i \in 1..n |-> 255]

\* The values an operand of width w takes: 0, 1, 3, 250, and 2^w - 1.
SampleValues(w) ==
  {NatToBytes(k, NumBytes(w)) : k \in {0, 1, 3, 250}} \cup {MaxBytes(NumBytes(w))}

\* The operands: integers of every width, with an assigned value or, as
\* integer_from_parameter returns them for an absent value, unassigned.
Integers ==
  UNION {{Integer(tag, UInt(Width(tag), value)) :
            value \in {None} \cup {Some(v) : v \in SampleValues(Width(tag))}} :
         tag \in IntegerTypes}

Types == {IntegerType(tag) : tag \in IntegerTypes} \cup {OtherType("Boolean"), OtherType("FieldElement")}

InputModels == {InputModel(t) : t \in Types}

\* Option<InputValue>: absent, integer literals, non-integer literals.
InputValues ==
  {None} \cup {Some(InputInteger(n)) : n \in {0, 7, 250, 300}}
         \cup {Some(InputBoolean(TRUE)), Some(InputField(5))}

\* What the constraint system holds when the operation is called.
InitialCs == {[i \in 1..k |-> Constraint("alloc", 8, None)] : k \in 0..MaxPre}

NoCall == [op |-> "none"]

\* The record of a call: the operation, its arguments, what its width
\* routine reported, the constraint system before it and what it returned.
Called(op, a, b, fault, before, res, gadgets) ==
  [op |-> op, left |-> a, right |-> b, fault |-> fault, before |-> before,
   ok |-> res.ok, val |-> res.val, err |-> res.err, gadgets |-> gadgets]

-----------------------------------------------------------------------------
(* Spec: one call of an operation *)

GetIntegerConstant ==
  \E integer \in Integers :
    /\ call = NoCall
    /\ call' = Called("get_integer_constant", integer, integer, None, cs,
                      PureOk(get_integer_constant(integer)), <<>>)
    /\ UNCHANGED <<cs, program, parameters, run>>

EvaluateIntegerEq ==
  \E left \in Integers, right \in Integers, unassigned_eq \in BOOLEAN :
    /\ call = NoCall
    /\ call' = Called("evaluate_integer_eq", left, right, None, cs,
                      evaluate_integer_eq(unassigned_eq, left, right), <<>>)
    /\ UNCHANGED <<cs, program, parameters, run>>

IntegerFromParameter ==
  \E integer_model \in InputModels, integer_value \in InputValues :
    LET res == integer_from_parameter(cs, integer_model, integer_value)
    IN  /\ call = NoCall
        /\ call' = Called("integer_from_parameter", integer_model, integer_value,
                          None, cs, res, res.gadgets)
        /\ cs' = res.cs
        /\ UNCHANGED <<program, parameters, run>>

\* A call op(cs, left, right) of one of the enforce_integer_* operations.
Enforce(op, res, left, right, fault) ==
  /\ call = NoCall
  /\ call' = Called(op, left, right, fault, cs, res, res.gadgets)
  /\ cs' = res.cs
  /\ UNCHANGED <<program, parameters, run>>

EnforceIntegerEq ==
  \E left \in Integers, right \in Integers :
    Enforce("enforce_integer_eq", enforce_integer_eq(cs, left, right), left, right, None)

EnforceIntegerAdd ==
  \E left \in Integers, right \in Integers, fault \in Faults :
    Enforce("enforce_integer_add", enforce_integer_add(fault, cs, left, right),
            left, right, fault)

EnforceIntegerSub ==
  \E left \in Integers, right \in Integers, fault \in Faults :
    Enforce("enforce_integer_sub", enforce_integer_sub(fault, cs, left, right),
            left, right, fault)

EnforceIntegerMul ==
  \E left \in Integers, right \in Integers, fault \in Faults :
    Enforce("enforce_integer_mul", enforce_integer_mul(fault, cs, left, right),
            left, right, fault)

EnforceIntegerDiv ==
  \E left \in Integers, right \in Integers, fault \in Faults :
    Enforce("enforce_integer_div", enforce_integer_div(fault, cs, left, right),
            left, right, fault)

EnforceIntegerPow ==
  \E left \in Integers, right \in Integers, fault \in Faults :
    Enforce("enforce_integer_pow", enforce_integer_pow(fault, cs, left, right),
            left, right, fault)

Init ==
  /\ cs \in InitialCs
  /\ call = NoCall
  /\ program = <<>>
  /\ parameters = <<>>
  /\ run = <<>>

Next ==
  \/ GetIntegerConstant
  \/ EvaluateIntegerEq
  \/ IntegerFromParameter
  \/ EnforceIntegerEq
  \/ EnforceIntegerAdd
  \/ EnforceIntegerSub
  \/ EnforceIntegerMul
  \/ EnforceIntegerDiv
  \/ EnforceIntegerPow

Spec == Init /\ [][Next]_vars

-----------------------------------------------------------------------------
(* The program driver *)

\* new_scope(outer, inner): the scope-qualified name.
new_scope(outer, inner) == <<outer, inner>>

\* A top-level definition of a program: what it binds (value under the
\* name new_scope(scope, name)), the constraints its resolution appends,
\* and whether its resolution fails.
Definition(kind, scope, name, value, appends, fails) ==
  [kind |-> kind, scope |-> scope, name |-> name, value |-> value,
   appends |-> appends, fails |-> fails]

\* A function: its declared inputs and its body, "return a op b" over its
\* first two inputs.
Function(inputs, op) == [inputs |-> inputs, op |-> op]

\* ConstrainedProgram::new(): the empty name table.
NewProgram == <<>>

\* ConstrainedProgram::store
Store(table, key, value) ==
  [k \in (DOMAIN table) \cup {key} |-> IF k = key THEN value ELSE table[k]]

\* ConstrainedProgram::get
Get(table, key) == IF key \in DOMAIN table THEN Some(table[key]) ELSE None

ImportError(name) == [kind |-> "ImportError", name |-> name]

\* The result of resolve_definitions: the name table and the constraint
\* system it leaves.
Resolved(ok, table, err, c) == [ok |-> ok, table |-> table, err |-> err, cs |-> c]

RECURSIVE ResolveFrom(_, _, _, _)
\* The definitions from the i-th on, resolved in program order.
ResolveFrom(definitions, i, table, c) ==
  IF i > Len(definitions) THEN Resolved(TRUE, table, NoError, c)
  ELSE LET d == definitions[i]
       IN  IF d.fails THEN Resolved(FALSE, table, ImportError(d.name), c)
           ELSE ResolveFrom(definitions, i + 1,
                            Store(table, new_scope(d.scope, d.name), d.value),
                            c \o d.appends)

resolve_definitions(table, c, prog) == ResolveFrom(prog.definitions, 1, table, c)

RECURSIVE allocate_inputs(_, _, _, _)
\* The declared inputs from the i-th on, each bound against the parameter
\* at its position (a free witness when there is none).
allocate_inputs(c, inputs, params, i) ==
  IF i > Len(inputs) THEN Ok(<<>>, c, <<>>)
  ELSE LET value == IF i <= Len(params) THEN params[i] ELSE None
           first == integer_from_parameter(c, inputs[i], value)
       IN  IF ~first.ok THEN first
           ELSE LET rest == allocate_inputs(first.cs, inputs, params, i + 1)
                IN  IF ~rest.ok THEN rest
                    ELSE Ok(<<first.val>> \o rest.val, rest.cs,
                            first.gadgets \o rest.gadgets)

\* The binary expression of the function body.
enforce_expression(fault, c, op, left, right) ==
  CASE op = "+" -> enforce_integer_add(fault, c, left, right)
    [] op = "-" -> enforce_integer_sub(fault, c, left, right)
    [] op = "*" -> enforce_integer_mul(fault, c, left, right)
    [] op = "/" -> enforce_integer_div(fault, c, left, right)
    [] op = "**" -> enforce_integer_pow(fault, c, left, right)

\* fault: what the width routine of the body's expression reports.
enforce_main_function(fault, c, scope, function, params) ==
  LET bound == allocate_inputs(c, function.inputs, params, 1)
  IN  IF ~bound.ok THEN bound
      ELSE LET body == enforce_expression(fault, bound.cs, function.op,
                                          bound.val[1].integer, bound.val[2].integer)
           IN  IF body.ok THEN Ok(body.val, body.cs, bound.gadgets \o body.gadgets)
               ELSE Err(body.err, body.cs, bound.gadgets \o body.gadgets)

\* CompilerError
NoMain == [kind |-> "NoMain"]
NoMainFunction == [kind |-> "NoMainFunction"]
\* The conversion the ? operator applies to a callee's error.
CompilerErrorFrom(e) == [kind |-> "CompilerError", source |-> e]

\* The runs of generate_constraints a behaviour follows.
Runs == {1}

NoReturn == [ok |-> FALSE, val |-> NoValue, err |-> [kind |-> "running"]]
Return(ok, val, err) == [ok |-> ok, val |-> val, err |-> err]

\* A run of generate_constraints before its first statement.
InitialRun ==
  [pc |-> "new", cs |-> <<>>, resolved_program |-> NewProgram,
   program_name |-> "", main_function_name |-> <<>>, main |-> None,
   ret |-> NoReturn, steps |-> <<>>]

\* let mut resolved_program = ConstrainedProgram::new(); the names.
GcNew(r) ==
  /\ run[r].pc = "new"
  /\ run' = [run EXCEPT ![r] =
       [@ EXCEPT !.pc = "resolve",
                 !.resolved_program = NewProgram,
                 !.program_name = program.name,
                 !.main_function_name = new_scope(program.name, "main"),
                 !.steps = Append(@, "new")]]
  /\ UNCHANGED <<cs, call, program, parameters>>

\* The resolution statement with its ? dropped: the run goes on to the
\* lookup of main whatever resolve_definitions returned.
GcResolve_unchecked(r) ==
  /\ run[r].pc = "resolve"
  /\ LET res == resolve_definitions(run[r].resolved_program, run[r].cs, program)
     IN  run' = [run EXCEPT ![r] =
           [@ EXCEPT !.pc = "get",
                     !.cs = res.cs,
                     !.resolved_program = res.table,
                     !.steps = Append(@, "resolve_definitions")]]
  /\ UNCHANGED <<cs, call, program, parameters>>

\* resolved_program.resolve_definitions(cs, program)?
GcResolve(r) ==
  /\ run[r].pc = "resolve"
  /\ LET res == resolve_definitions(run[r].resolved_program, run[r].cs, program)
     IN  run' = [run EXCEPT ![r] =
           [@ EXCEPT !.pc = IF res.ok THEN "get" ELSE "done",
                     !.cs = res.cs,
                     !.resolved_program = res.table,
                     !.ret = IF res.ok THEN @
                             ELSE Return(FALSE, NoValue, CompilerErrorFrom(res.err)),
                     !.steps = Append(@, "resolve_definitions")]]
  /\ UNCHANGED <<cs, call, program, parameters>>

\* The names of the table that end in "main", whatever their scope.
MainsOf(table) == {k \in DOMAIN table : k[2] = "main"}

\* The lookup of main by its identifier alone, the first scope taken.
GcGet_any_scope(r) ==
  /\ run[r].pc = "get"
  /\ LET found == MainsOf(run[r].resolved_program)
         main == IF found = {} THEN None
                 ELSE Some(run[r].resolved_program[CHOOSE k \in found : TRUE])
     IN  run' = [run EXCEPT ![r] =
           [@ EXCEPT !.pc = IF IsSome(main) THEN "match" ELSE "done",
                     !.main = main,
                     !.ret = IF IsSome(main) THEN @
                             ELSE Return(FALSE, NoValue, NoMain),
                     !.steps = Append(@, "get")]]
  /\ UNCHANGED <<cs, call, program, parameters>>

\* resolved_program.get(&main_function_name).ok_or_else(|| NoMain)?
GcGet(r) ==
  /\ run[r].pc = "get"
  /\ LET main == Get(run[r].resolved_program, run[r].main_function_name)
     IN  run' = [run EXCEPT ![r] =
           [@ EXCEPT !.pc = IF IsSome(main) THEN "match" ELSE "done",
                     !.main = main,
                     !.ret = IF IsSome(main) THEN @
                             ELSE Return(FALSE, NoValue, NoMain),
                     !.steps = Append(@, "get")]]
  /\ UNCHANGED <<cs, call, program, parameters>>

\* match main.clone() { Function(function) => enforce_main_function(..)?,
\*                      _ => Err(NoMainFunction) }
GcMatch(r) ==
  /\ run[r].pc = "match"
  /\ \E fault \in Faults :
     LET main == Unwrap(run[r].main)
         res == enforce_main_function(fault, run[r].cs, run[r].program_name,
                                      main.function, parameters)
     IN  run' = [run EXCEPT ![r] =
           IF main.kind = "Function"
           THEN [@ EXCEPT !.pc = "done",
                          !.cs = res.cs,
                          !.ret = IF res.ok THEN Return(TRUE, res.val, NoError)
                                  ELSE Return(FALSE, NoValue, CompilerErrorFrom(res.err)),
                          !.steps = Append(@, "enforce_main_function")]
           ELSE [@ EXCEPT !.pc = "done",
                          !.ret = Return(FALSE, NoValue, NoMainFunction)]]
  /\ UNCHANGED <<cs, call, program, parameters>>

\* One statement of a run of generate_constraints.
generate_constraints(r) == GcNew(r) \/ GcResolve(r) \/ GcGet(r) \/ GcMatch(r)

-----------------------------------------------------------------------------
(* Inputs of SpecGen *)

U(tag) == InputModel(IntegerType(tag))

MainFunction(inputs, op) ==
  Definition("function", "prog", "main", CVFunction(Function(inputs, op)), <<>>, FALSE)
Helper ==
  Definition("function", "prog", "helper",
             CVFunction(Function(<<U("U8"), U("U8")>>, "*")), <<>>, FALSE)
\* An imported definition whose resolution allocates in the constraint system.
Import(name, value, fails) ==
  Definition("import", "lib", name, value, <<Constraint("import", 8, None)>>, fails)
Struct(scope, name) ==
  Definition("struct", scope, name, CVOther("Struct"), <<>>, FALSE)

Program(definitions) == [name |-> "prog", definitions |-> definitions]

Programs ==
  { Program(<<MainFunction(<<U("U8"), U("U8")>>, "+")>>),
    Program(<<Helper, MainFunction(<<U("U8"), U("U16")>>, "+")>>),
    Program(<<MainFunction(<<U("U8"), U("U8")>>, "/")>>),
    Program(<<Import("lib_fn", CVOther("Struct"), FALSE),
              MainFunction(<<U("U128"), U("U128")>>, "-")>>),
    Program(<<Helper>>),
    Program(<<Import("main", CVFunction(Function(<<U("U8"), U("U8")>>, "+")), FALSE),
              Helper>>),
    Program(<<Import("lib_fn", CVOther("Struct"), FALSE), Struct("prog", "main")>>),
    Program(<<Import("lib_fn", CVOther("Struct"), FALSE),
              MainFunction(<<U("U8"), U("U8")>>, "+"),
              Import("missing", CVOther("Struct"), TRUE)>>),
    Program(<<Struct("lib", "main"), MainFunction(<<U("U8"), U("U8")>>, "+")>>) }

ParameterLists ==
  { <<>>,
    <<Some(InputInteger(3))>>,
    <<Some(InputInteger(3)), Some(InputInteger(4))>>,
    <<Some(InputInteger(250)), Some(InputInteger(10))>>,
    <<Some(InputInteger(3)), Some(InputInteger(0))>>,
    <<None, Some(InputInteger(4))>>,
    <<Some(InputBoolean(TRUE)), Some(InputInteger(4))>> }

-----------------------------------------------------------------------------
(* SpecGen: a run of generate_constraints *)

InitGen ==
  /\ program \in Programs
  /\ parameters \in ParameterLists
  /\ run = [r \in Runs |-> InitialRun]
  /\ cs = <<>>
  /\ call = NoCall

NextGen == \E r \in Runs : generate_constraints(r)

SpecGen == InitGen /\ [][NextGen]_vars


-----------------------------------------------------------------------------
(* Properties of the integer operations (under Spec) *)

BinaryOps ==
  {"evaluate_integer_eq", "enforce_integer_eq", "enforce_integer_add",
   "enforce_integer_sub", "enforce_integer_mul", "enforce_integer_div",
   "enforce_integer_pow"}

ArithmeticOps ==
  {"enforce_integer_add", "enforce_integer_sub", "enforce_integer_mul",
   "enforce_integer_div", "enforce_integer_pow"}

\* The operator symbol each operation names in its width-mismatch message.
Symbol(op) ==
  CASE op \in {"evaluate_integer_eq", "enforce_integer_eq"} -> "=="
    [] op = "enforce_integer_add" -> "+"
    [] op = "enforce_integer_sub" -> "-"
    [] op = "enforce_integer_mul" -> "*"
    [] op = "enforce_integer_div" -> "/"
    [] op = "enforce_integer_pow" -> "**"

IsBinaryCall == call.op \in BinaryOps
SameWidth == call.left.tag = call.right.tag

\* C1: on operands whose width tags differ, each of the seven operations
\* returns its width-mismatch error (CannotEvaluate for evaluate_integer_eq,
\* CannotEnforce for the others) naming the operator symbol and both
\* operands, returns no value, enters no width routine and appends nothing
\* to the constraint system.
C1_WidthMismatchRejected ==
  (IsBinaryCall /\ ~SameWidth) =>
    /\ ~call.ok
    /\ call.val = NoValue
    /\ call.err = [kind |-> IF call.op = "evaluate_integer_eq"
                            THEN "CannotEvaluate" ELSE "CannotEnforce",
                   left |-> [value |-> call.left.uint.value,
                             suffix |-> Suffix(call.left.tag)],
                   op |-> Symbol(call.op),
                   right |-> [value |-> call.right.uint.value,
                              suffix |-> Suffix(call.right.tag)]]
    /\ call.gadgets = <<>>
    /\ cs = call.before

\* A division of a u8 by a u128 was rejected on a constraint system that
\* already held constraints.
C1_Witness ==
  /\ call.op = "enforce_integer_div"
  /\ call.left.tag = "U8"
  /\ call.right.tag = "U128"
  /\ call.err.kind = "CannotEnforce"
  /\ Len(call.before) > 0

IsFromParameter == call.op = "integer_from_parameter"

\* C4: with a declared type that is not an integer type,
\* integer_from_parameter fails with InvalidType naming the type, whatever
\* the supplied value is, and allocates nothing.
C4_InvalidTypeFirst ==
  (IsFromParameter /\ call.left._type.kind # "IntegerType") =>
    /\ ~call.ok
    /\ call.err = [kind |-> "InvalidType",
                   type |-> IF call.left._type.kind = "Boolean" THEN "bool" ELSE "fe"]
    /\ call.gadgets = <<>>
    /\ cs = call.before

\* A boolean-typed model with a boolean literal was rejected for its type.
C4_Witness ==
  /\ IsFromParameter
  /\ call.left._type.kind = "Boolean"
  /\ call.right = Some(InputBoolean(TRUE))
  /\ call.err.kind = "InvalidType"

\* C5: with a declared integer type and a present value that is not an
\* integer literal, integer_from_parameter fails with InvalidInteger
\* carrying the declared type and the value's rendering, and enters no
\* allocation routine.
C5_InvalidInteger ==
  (/\ IsFromParameter
   /\ call.left._type.kind = "IntegerType"
   /\ IsSome(call.right)
   /\ Unwrap(call.right).kind # "Integer") =>
    /\ ~call.ok
    /\ call.err = [kind |-> "InvalidInteger",
                   type |-> Suffix(call.left._type.integer_type),
                   value |-> InputValueToString(Unwrap(call.right))]
    /\ call.gadgets = <<>>

\* A u64 model with a field literal was rejected for its value.
C5_Witness ==
  /\ IsFromParameter
  /\ call.left._type = IntegerType("U64")
  /\ call.right = Some(InputField(5))
  /\ call.err.kind = "InvalidInteger"
  /\ call.err.value = "5"

\* What the width gadget of an arithmetic operation returned on the call's
\* operands.
GadgetResult ==
  LET w == Width(call.left.tag)
      l == call.left.uint
      r == call.right.uint
      f == call.fault
  IN  CASE call.op = "enforce_integer_add" -> enforce_uN_add(f, w, call.before, l, r)
        [] call.op = "enforce_integer_sub" -> enforce_uN_sub(f, w, call.before, l, r)
        [] call.op = "enforce_integer_mul" -> enforce_uN_mul(f, w, call.before, l, r)
        [] call.op = "enforce_integer_div" -> enforce_uN_div(f, w, call.before, l, r)
        [] call.op = "enforce_integer_pow" -> enforce_uN_pow(f, w, call.before, l, r)

\* C8: on operands of the same width, a failure of the width gadget called
\* by enforce_integer_add, _sub, _mul, _div or _pow (a division by zero or
\* any other failure the gadget reports) is what the operation returns: the
\* same error, not CannotEnforce, and no value.
C8_GadgetFailurePropagates ==
  (call.op \in ArithmeticOps /\ SameWidth /\ ~GadgetResult.ok) =>
    /\ ~call.ok
    /\ call.val = NoValue
    /\ call.err = GadgetResult.err
    /\ call.err.kind # "CannotEnforce"

\* A u128 exponentiation whose gadget reported an overflow returned that
\* failure.
C8_Witness ==
  /\ call.op = "enforce_integer_pow"
  /\ call.left = Integer("U128", UInt(128, Some(MaxBytes(16))))
  /\ call.right = Integer("U128", UInt(128, Some(NatToBytes(3, 16))))
  /\ call.fault = Some(SynthesisError("Overflow"))
  /\ ~call.ok
  /\ call.err = SynthesisError("Overflow")

IsPrefix(s, t) == Len(s) <= Len(t) /\ SubSeq(t, 1, Len(s)) = s

\* C9: evaluate_integer_eq leaves the constraint system as it was, in every
\* outcome; integer_from_parameter leaves it as it was when it fails with
\* InvalidType or InvalidInteger; and the constraint system changes only by
\* appending, in an enforce_* operation on same-width operands or in
\* integer_from_parameter with an integer type and an absent or integer
\* value.
C9_Frame ==
  (call # NoCall) =>
    /\ (call.op = "evaluate_integer_eq") => cs = call.before
    /\ (IsFromParameter /\ ~call.ok /\ call.err.kind \in {"InvalidType", "InvalidInteger"}) =>
         cs = call.before
    /\ IsPrefix(call.before, cs)
    /\ (cs # call.before) =>
         \/ call.op \in (BinaryOps \ {"evaluate_integer_eq"}) /\ SameWidth
         \/ /\ IsFromParameter
            /\ call.left._type.kind = "IntegerType"
            /\ (IsSome(call.right) => Unwrap(call.right).kind = "Integer")

\* integer_from_parameter failed with InvalidInteger on a constraint system
\* that held constraints, and left them as they were.
C9_Witness ==
  /\ IsFromParameter
  /\ call.err.kind = "InvalidInteger"
  /\ Len(call.before) > 0
  /\ cs = call.before


-----------------------------------------------------------------------------
(* Properties of the driver (under SpecGen) *)

Definitions == program.definitions

\* No definition of the program fails to resolve.
ResolvesAll == \A i \in 1..Len(Definitions) : ~Definitions[i].fails

\* The definitions of the program that bind main in the program's own scope.
MainDefinitions ==
  {i \in 1..Len(Definitions) :
     Definitions[i].scope = program.name /\ Definitions[i].name = "main"}

\* The last of them: the one the name table ends up holding.
LastMain == CHOOSE i \in MainDefinitions : \A j \in MainDefinitions : j <= i

Done(r) == run[r].pc = "done"

\* C6: when the resolved program has no entry under the scope-qualified
\* name of main, generate_constraints fails with NoMain; when the entry is
\* not a function, it fails with NoMainFunction; no value is returned.
C6_EntryPointErrors ==
  \A r \in Runs :
    (Done(r) /\ ResolvesAll) =>
      /\ (MainDefinitions = {}) =>
           run[r].ret = Return(FALSE, NoValue, NoMain)
      /\ (MainDefinitions # {} /\ Definitions[LastMain].value.kind # "Function") =>
           run[r].ret = Return(FALSE, NoValue, NoMainFunction)

\* A program whose only main is a function of another scope failed with
\* NoMain.
C6_Witness ==
  /\ Done(1)
  /\ run[1].ret.err = NoMain
  /\ \E i \in 1..Len(Definitions) :
       /\ Definitions[i].name = "main"
       /\ Definitions[i].scope # program.name
       /\ Definitions[i].value.kind = "Function"

Range(seq) == {seq[i] : i \in 1..Len(seq)}

RECURSIVE ResolutionCs(_)
\* The constraints the resolution of the definitions from the i-th on
\* appends, up to the first one that fails.
ResolutionCs(i) ==
  IF i > Len(Definitions) \/ Definitions[i].fails THEN <<>>
  ELSE Definitions[i].appends \o ResolutionCs(i + 1)

Enforced(r) == "enforce_main_function" \in Range(run[r].steps)

FailedBeforeMain(r) ==
  /\ Done(r)
  /\ ~run[r].ret.ok
  /\ \/ run[r].ret.err \in {NoMain, NoMainFunction}
     \/ /\ run[r].ret.err.kind = "CompilerError"
        /\ run[r].ret.err.source.kind = "ImportError"

\* The main function is enforced only after resolution has succeeded and
\* the lookup has yielded a function; a run that failed before that holds
\* exactly the constraints resolution appended.
MainEnforcedLast ==
  \A r \in Runs :
    /\ Enforced(r) =>
         /\ run[r].steps = <<"new", "resolve_definitions", "get", "enforce_main_function">>
         /\ ResolvesAll
         /\ IsSome(run[r].main)
         /\ Unwrap(run[r].main).kind = "Function"
    /\ FailedBeforeMain(r) =>
         /\ ~Enforced(r)
         /\ run[r].cs = ResolutionCs(1)

\* No step of a run removes a constraint.
CsGrows == \A r \in Runs : IsPrefix(run[r].cs, run'[r].cs)

\* C10: in every run, enforcement of main starts only after resolution of
\* all definitions has succeeded and the lookup of main has yielded a
\* function; a run that fails with a resolution error, NoMain or
\* NoMainFunction never enforces main and keeps the constraints resolution
\* appended; the constraint sequence only grows.
C10_EnforceAfterResolve == [](MainEnforcedLast) /\ [][CsGrows]_vars

\* A run failed on an import after an earlier import had appended a
\* constraint, which is still there.
C10_Witness ==
  /\ Done(1)
  /\ run[1].ret.err.kind = "CompilerError"
  /\ run[1].ret.err.source.kind = "ImportError"
  /\ Len(run[1].cs) > 0
  /\ ~Enforced(1)

=============================================================================
